---- MODULE Spec2Model ----
(***************************************************************************)
(* Disaster Response Pipeline (project-2).                                 *)
(*                                                                         *)
(*   data/process_data.py      ETL: load_data, clean_data, save_data, main *)
(*   models/train_classifier.py  load_data_from_db, tokenize,              *)
(*                             StartingVerbExtractor, build_pipeline,      *)
(*                             multioutput_fscore, evaluate_pipeline       *)
(*                                                                         *)
(* Each component has its own variables and its own specification; a       *)
(* specification leaves the other components' variables at their initial   *)
(* values.  Library calls (pandas, nltk, scipy, scikit-learn) are modelled *)
(* by their documented behaviour at the line that calls them.              *)
(***************************************************************************)
EXTENDS Integers, Sequences, FiniteSets, TLC

VARIABLES
    cleanIn, cleanOut, cleanPc,                        \* clean_data as a function
    db, etlPc, etlFile, etlDf, lastrun, trainDf,       \* the two main() programs
    tokText, tokOut, tokPc,                            \* tokenize
    svMsg, svResult, svOut, svCount, svPc,             \* StartingVerbExtractor
    yActual, yPred, f1List, f1Kept, f1Result, report, scorePc,  \* evaluator
    gsData, gsNext, gsInflight, gsResults, gsBest, gsOvertook, gsPc  \* grid search

cleanVars == <<cleanIn, cleanOut, cleanPc>>
etlVars   == <<db, etlPc, etlFile, etlDf, lastrun, trainDf>>
tokVars   == <<tokText, tokOut, tokPc>>
svVars    == <<svMsg, svResult, svOut, svCount, svPc>>
scoreVars == <<yActual, yPred, f1List, f1Kept, f1Result, report, scorePc>>
gsVars    == <<gsData, gsNext, gsInflight, gsResults, gsBest, gsOvertook, gsPc>>
vars      == <<cleanVars, etlVars, tokVars, svVars, scoreVars, gsVars>>

(***************************************************************************)
(* Generic helpers                                                         *)
(***************************************************************************)
Range(s) == {s[i] : i \in 1..Len(s)}

SeqsUpTo(S, lo, hi) == UNION {[1..n -> S] : n \in lo..hi}

\* Python str.replace(old, new): every non-overlapping occurrence of old,
\* scanning left to right, is replaced.  Strings are sequences of characters.
RECURSIVE StrReplace(_, _, _)
StrReplace(s, old, new) ==
    IF Len(s) < Len(old) \/ old = <<>> THEN s
    ELSE IF SubSeq(s, 1, Len(old)) = old
         THEN new \o StrReplace(SubSeq(s, Len(old) + 1, Len(s)), old, new)
         ELSE <<Head(s)>> \o StrReplace(Tail(s), old, new)

\* Python str.strip(): leading and trailing whitespace removed.
RECURSIVE StrStrip(_)
StrStrip(s) ==
    IF s = <<>> THEN s
    ELSE IF Head(s) = " " THEN StrStrip(Tail(s))
    ELSE IF s[Len(s)] = " " THEN StrStrip(SubSeq(s, 1, Len(s) - 1))
    ELSE s

(***************************************************************************)
(* process_data.py: clean_data                                             *)
(*                                                                         *)
(* A row of the merged frame is [id, message, cats]: cats is the           *)
(* 'categories' string already cut at ';', one cell per category.  A cell  *)
(* is the string "<name>-<value>" as a sequence of characters, the name    *)
(* standing as one character.                                              *)
(***************************************************************************)
NumIds == 1
MaxRows == 2

CategoryNames == <<"related", "child_alone">>

\* The text after the category name in a cell of the source CSV.
RelatedTails == {<<"-", "0">>, <<"-", "1">>, <<"-", "2">>, <<"-", "3">>,
                 <<"-", "1", "2">>, <<"-", "x">>, <<"-", "1", " ">>}
ChildAloneTails == {<<"-", "0">>, <<"-", "1">>, <<"-", "3">>}

Cell(name, tail) == <<name>> \o tail

CatCells == {<<Cell("related", r), Cell("child_alone", c)>> :
                r \in RelatedTails, c \in ChildAloneTails}

Messages == {"help", "water"}

RawRows == [id : 1..NumIds, message : Messages, cats : CatCells]

RawTables == SeqsUpTo(RawRows, 1, MaxRows)

Digits == {"0", "1", "2", "3", "4", "5", "6", "7", "8", "9"}

DigitValue(c) ==
    CASE c = "0" -> 0 [] c = "1" -> 1 [] c = "2" -> 2 [] c = "3" -> 3
      [] c = "4" -> 4 [] c = "5" -> 5 [] c = "6" -> 6 [] c = "7" -> 7
      [] c = "8" -> 8 [] c = "9" -> 9

\* line 54: the column name is the first row's cell with '-2', '-1', '-0' removed.
ColumnName(cell) ==
    StrReplace(StrReplace(StrReplace(cell, <<"-", "2">>, <<>>),
                          <<"-", "1">>, <<>>),
               <<"-", "0">>, <<>>)

CategoryColnames(df) == [c \in 1..Len(CategoryNames) |-> ColumnName(df[1].cats[c])]

\* line 59: .str.strip().str[-1], the last character of the stripped cell.
LastChar(cell) == LET s == StrStrip(cell) IN s[Len(s)]

\* line 60: astype(int) raises ValueError on a character that is no digit.
CellParses(cell) == LastChar(cell) \in Digits

\* line 63: categories.replace(to_replace=2, value=1).
ReplaceTwo(v) == IF v = 2 THEN 1 ELSE v

CategoryValue(cell) == ReplaceTwo(DigitValue(LastChar(cell)))

\* lines 65-68: the categories string is replaced by the numeric columns.
ParsedRow(r) ==
    [id |-> r.id, message |-> r.message,
     vals |-> [c \in 1..Len(CategoryNames) |-> CategoryValue(r.cats[c])]]

ParsedRows(df) == [i \in 1..Len(df) |-> ParsedRow(df[i])]

\* drop_duplicates left out: every row is kept.
KeepEveryRow(rows) == rows

\* line 71: DataFrame.drop_duplicates() keeps the first of equal rows, in order.
RECURSIVE DropDuplicates(_)
DropDuplicates(rows) ==
    IF rows = <<>> THEN <<>>
    ELSE LET front == DropDuplicates(SubSeq(rows, 1, Len(rows) - 1))
             last  == rows[Len(rows)]
         IN  IF last \in Range(front) THEN front ELSE Append(front, last)

ColumnIndex(names, name) ==
    IF \E c \in 1..Len(names) : names[c] = name
    THEN CHOOSE c \in 1..Len(names) : names[c] = name
    ELSE 0

WithoutIndex(s, k) == [i \in 1..(Len(s) - 1) |-> IF i < k THEN s[i] ELSE s[i + 1]]

\* line 74: df.drop(['child_alone'], axis=1).
DropColumn(rows, k) ==
    [i \in 1..Len(rows) |->
        [id |-> rows[i].id, message |-> rows[i].message,
         vals |-> WithoutIndex(rows[i].vals, k)]]

Frame(status, columns, rows) == [status |-> status, columns |-> columns, rows |-> rows]

Raised(exc) == Frame(exc, <<>>, <<>>)

clean_data(df) ==
    LET names == CategoryColnames(df)
        k     == ColumnIndex(names, <<"child_alone">>)
    IN  IF \E i \in 1..Len(df), c \in 1..Len(CategoryNames) : ~CellParses(df[i].cats[c])
        THEN Raised("ValueError")
        ELSE IF k = 0
        THEN Raised("KeyError")
        ELSE Frame("ok", WithoutIndex(names, k),
                   DropColumn(DropDuplicates(ParsedRows(df)), k))

NoFrame == Frame("none", <<>>, <<>>)

CleanInit ==
    /\ cleanIn \in RawTables
    /\ cleanOut = NoFrame
    /\ cleanPc = "start"

CleanData ==
    /\ cleanPc = "start"
    /\ cleanOut' = clean_data(cleanIn)
    /\ cleanPc' = "done"
    /\ UNCHANGED cleanIn

CleanIdle ==
    /\ cleanIn = <<>>
    /\ cleanOut = NoFrame
    /\ cleanPc = "off"

(***************************************************************************)
(* process_data.py: load_data, save_data, main                             *)
(* train_classifier.py: load_data_from_db                                  *)
(*                                                                         *)
(* The two programs run one after the other against SQLite files; db maps  *)
(* a database filename to its tables.                                      *)
(***************************************************************************)
MaxEtlRows == 1

Files == {"DisasterResponse.db", "messages.db"}

\* line 88: database_filename.replace('.db','') + '_table'.
TableNameOf(f) ==
    CASE f = "DisasterResponse.db" -> "DisasterResponse_table"
      [] f = "messages.db" -> "messages_table"

TableNames == {"DisasterResponse_table", "messages_table"}

\* The CSV files an ETL run is given: message rows, and one categories
\* string per id.
EtlMessageRows == [id : 1..NumIds, message : {"help"}]

EtlCats == {<<Cell("related", r), Cell("child_alone", <<"-", "0">>)>> :
               r \in {<<"-", "0">>, <<"-", "2">>, <<"-", "x">>}}

MessagesCsvs == SeqsUpTo(EtlMessageRows, 1, MaxEtlRows)

CategoriesCsvs == [1..NumIds -> EtlCats]

\* lines 31-37: pd.merge(messages, categories, how='left', on='id'); every id
\* of the message file has exactly one row in the categories file.
load_data(messages, categories) ==
    [i \in 1..Len(messages) |->
        [id |-> messages[i].id, message |-> messages[i].message,
         cats |-> categories[messages[i].id]]]

\* The table named after the database file, as line 88 computes it.
SaveTableNameFromFile(f) == TableNameOf(f)

\* line 89: the table the frame is written to.
SaveTableName(f) == "DisasterResponse_table"

\* line 89: if_exists='replace' drops an existing table and writes the frame.
ToSql(existing, frame) == frame

save_data(database, df, f) ==
    [database EXCEPT ![f][SaveTableName(f)] = ToSql(database[f][SaveTableName(f)], df)]

\* line 50: the table the training stage reads.
ReadTableName(f) == "DisasterResponse_table"

Loaded(status, X, y, names) ==
    [status |-> status, X |-> X, y |-> y, category_names |-> names]

NotLoaded == Loaded("none", <<>>, <<>>, <<>>)

\* lines 49-59: read_sql_table raises when the file has no such table;
\* X is the message column, y the category columns.
load_data_from_db(database, f) ==
    LET t == database[f][ReadTableName(f)]
    IN  IF t.status # "ok" THEN Loaded("ValueError", <<>>, <<>>, <<>>)
        ELSE Loaded("ok",
                    [i \in 1..Len(t.rows) |-> t.rows[i].message],
                    [i \in 1..Len(t.rows) |-> t.rows[i].vals],
                    t.columns)

NoRun == [frame |-> NoFrame, replaced |-> FALSE]

EtlInit ==
    /\ db = [f \in Files |-> [t \in TableNames |-> NoFrame]]
    /\ etlPc = "idle"
    /\ etlFile = "DisasterResponse.db"
    /\ etlDf = <<>>
    /\ lastrun = [f \in Files |-> NoRun]
    /\ trainDf = NotLoaded

\* process_data.main, lines 104-108.
EtlLoad ==
    /\ etlPc = "idle"
    /\ \E f \in Files, m \in MessagesCsvs, c \in CategoriesCsvs :
          /\ etlFile' = f
          /\ etlDf' = load_data(m, c)
    /\ etlPc' = "loaded"
    /\ UNCHANGED <<db, lastrun, trainDf>>

\* process_data.main, line 111; an exception ends the program.
EtlClean ==
    /\ etlPc = "loaded"
    /\ LET out == clean_data(etlDf)
       IN  IF out.status = "ok"
           THEN etlDf' = out /\ etlPc' = "cleaned"
           ELSE etlDf' = <<>> /\ etlPc' = "idle"
    /\ UNCHANGED <<db, etlFile, lastrun, trainDf>>

\* process_data.main, line 114.  lastrun records the frame handed to
\* save_data and whether a table was already there.
EtlSave ==
    /\ etlPc = "cleaned"
    /\ db' = save_data(db, etlDf, etlFile)
    /\ lastrun' = [lastrun EXCEPT ![etlFile] =
                     [frame |-> etlDf,
                      replaced |-> lastrun[etlFile].frame.status = "ok"]]
    /\ etlDf' = <<>>
    /\ etlPc' = "idle"
    /\ UNCHANGED <<etlFile, trainDf>>

\* train_classifier.main, line 237.
TrainLoad ==
    /\ etlPc = "idle"
    /\ \E f \in Files :
          /\ etlFile' = f
          /\ trainDf' = load_data_from_db(db, f)
    /\ etlPc' = "train_loaded"
    /\ UNCHANGED <<db, etlDf, lastrun>>

\* train_classifier.main, lines 238-256: the rest of the training program.
TrainDone ==
    /\ etlPc = "train_loaded"
    /\ trainDf' = NotLoaded
    /\ etlPc' = "idle"
    /\ UNCHANGED <<db, etlFile, etlDf, lastrun>>

EtlIdle ==
    /\ db = [f \in Files |-> [t \in TableNames |-> NoFrame]]
    /\ etlPc = "off"
    /\ etlFile = "DisasterResponse.db"
    /\ etlDf = <<>>
    /\ lastrun = [f \in Files |-> NoRun]
    /\ trainDf = NotLoaded

(***************************************************************************)
(* train_classifier.py: tokenize                                           *)
(*                                                                         *)
(* A text is a sequence of characters.  The scheme "http://" stands as one *)
(* character; like the letters it is made of, it is also a character the   *)
(* URL pattern accepts after the scheme.                                   *)
(***************************************************************************)
MaxTextLen == 6

Scheme == "http://"

url_placeholder == "urlplaceholder"

TextChars == {Scheme, "a", "s", "B", " "}

Texts == SeqsUpTo(TextChars, 0, MaxTextLen)

\* line 72: the characters the pattern's repeated group accepts.
UrlChars == {Scheme, "a", "s", "B", "R", "T", "g", "o"}

RECURSIVE UrlRun(_)
UrlRun(s) == IF s = <<>> \/ Head(s) \notin UrlChars THEN 0 ELSE 1 + UrlRun(Tail(s))

\* line 75: re.findall(url_re, text): the non-overlapping matches, leftmost
\* first, each the scheme followed by the longest run of URL characters.
RECURSIVE FindAll(_)
FindAll(s) ==
    IF s = <<>> THEN <<>>
    ELSE IF Head(s) = Scheme /\ UrlRun(Tail(s)) >= 1
         THEN <<SubSeq(s, 1, 1 + UrlRun(Tail(s)))>>
                 \o FindAll(SubSeq(s, 2 + UrlRun(Tail(s)), Len(s)))
         ELSE FindAll(Tail(s))

\* lines 78-79: for detect_url in detect_urls: text = text.replace(detect_url, placeholder).
RECURSIVE ReplaceUrls(_, _)
ReplaceUrls(text, detect_urls) ==
    IF detect_urls = <<>> THEN text
    ELSE ReplaceUrls(StrReplace(text, Head(detect_urls), <<url_placeholder>>),
                     Tail(detect_urls))

\* line 82: nltk.word_tokenize; over these characters it cuts at whitespace.
RECURSIVE WordTokenize(_)
WordTokenize(s) ==
    IF s = <<>> THEN <<>>
    ELSE IF Head(s) = " " THEN WordTokenize(Tail(s))
    ELSE LET n == CHOOSE k \in 1..Len(s) :
                     /\ \A i \in 1..k : s[i] # " "
                     /\ (k = Len(s) \/ s[k + 1] = " ")
         IN  <<SubSeq(s, 1, n)>> \o WordTokenize(SubSeq(s, n + 1, Len(s)))

\* line 88: WordNetLemmatizer.lemmatize(w), noun lemmas; a word WordNet does
\* not know comes back unchanged.
Lemmatize(w) ==
    CASE w = <<"a", "s">> -> <<"a">>
      [] w = <<"a", "a", "s">> -> <<"a", "a">>
      [] OTHER -> w

LowerChar(c) ==
    CASE c = "B" -> "b" [] c = "R" -> "r" [] c = "T" -> "t" [] OTHER -> c

\* line 88: str.lower().
Lower(w) == [i \in 1..Len(w) |-> LowerChar(w[i])]

\* line 88: lemmatizer.lemmatize(w).lower().strip().
CleanToken(w) == StrStrip(Lower(Lemmatize(w)))

CleanTokens(tokens) == [i \in 1..Len(tokens) |-> CleanToken(tokens[i])]

tokenize(text) == CleanTokens(WordTokenize(ReplaceUrls(text, FindAll(text))))

TokInit ==
    /\ tokText \in Texts
    /\ tokOut = <<>>
    /\ tokPc = "start"

Tokenize ==
    /\ tokPc = "start"
    /\ tokOut' = tokenize(tokText)
    /\ tokPc' = "done"
    /\ UNCHANGED tokText

TokIdle ==
    /\ tokText = <<>>
    /\ tokOut = <<>>
    /\ tokPc = "off"

(***************************************************************************)
(* train_classifier.py: StartingVerbExtractor                              *)
(*                                                                         *)
(* A message is the list of sentences nltk.sent_tokenize cuts it into; a   *)
(* sentence is its text and the tags nltk.pos_tag gives its tokens, one    *)
(* tag per token, any tag for any token.                                   *)
(***************************************************************************)
MaxSentences == 2
MaxMsgs == 2

Tags == {"VB", "VBP", "NN"}

SentenceTexts == {<<" ">>, <<"R", "T">>, <<"g", "o">>, <<"R", "T", " ", "g", "o">>}

SvSentences ==
    UNION {[text : {t}, tags : [1..Len(tokenize(t)) -> Tags]] : t \in SentenceTexts}

SvMessages == SeqsUpTo(SvSentences, 0, MaxSentences)

\* line 102: nltk.pos_tag(tokenize(sentence)): (token, tag) pairs.
PosTag(sentence) ==
    LET tokens == tokenize(sentence.text)
    IN  [i \in 1..Len(tokens) |-> <<tokens[i], sentence.tags[i]>>]

Outcome(raised, value) == [raised |-> raised, value |-> value]

\* Only the first sentence is looked at.
FirstSentenceOnly(sentence_list) ==
    IF sentence_list = <<>> THEN Outcome(FALSE, FALSE)
    ELSE LET pos_tags == PosTag(Head(sentence_list))
         IN  IF pos_tags = <<>> THEN Outcome(TRUE, FALSE)
             ELSE Outcome(FALSE, pos_tags[1][2] \in {"VB", "VBP"}
                                    \/ pos_tags[1][1] = <<"R", "T">>)

\* lines 101-106: the loop over sentence_list; pos_tags[0] of an empty list
\* raises IndexError.
RECURSIVE SentenceLoop(_)
SentenceLoop(sentence_list) ==
    IF sentence_list = <<>> THEN Outcome(FALSE, FALSE)
    ELSE LET pos_tags == PosTag(Head(sentence_list))
         IN  IF pos_tags = <<>> THEN Outcome(TRUE, FALSE)
             ELSE LET first_word == pos_tags[1][1]
                      first_tag  == pos_tags[1][2]
                  IN  IF first_tag \in {"VB", "VBP"} \/ first_word = <<"R", "T">>
                      THEN Outcome(FALSE, TRUE)
                      ELSE SentenceLoop(Tail(sentence_list))

starting_verb(text) == SentenceLoop(text)

NoOutcome == Outcome(FALSE, FALSE)

SvInit ==
    /\ svMsg = <<>>
    /\ svResult = NoOutcome
    /\ svOut = <<>>
    /\ svCount = 0
    /\ svPc = "fetch"

\* line 113: Series.apply takes the next message of X.
SvFetch ==
    /\ svPc = "fetch"
    /\ svCount < MaxMsgs
    /\ \E m \in SvMessages : svMsg' = m
    /\ svCount' = svCount + 1
    /\ svPc' = "call"
    /\ UNCHANGED <<svResult, svOut>>

\* lines 99-106.
StartingVerb ==
    /\ svPc = "call"
    /\ svResult' = starting_verb(svMsg)
    /\ svPc' = "ret"
    /\ UNCHANGED <<svMsg, svOut, svCount>>

\* line 113: apply collects the value; an exception leaves transform.
SvCollect ==
    /\ svPc = "ret"
    /\ IF svResult.raised
       THEN svPc' = "raised" /\ UNCHANGED svOut
       ELSE svPc' = "fetch" /\ svOut' = Append(svOut, svResult.value)
    /\ svMsg' = <<>>
    /\ svResult' = NoOutcome
    /\ UNCHANGED svCount

\* line 114: X is exhausted and transform returns the frame.
SvFinish ==
    /\ svPc = "fetch"
    /\ svPc' = "done"
    /\ UNCHANGED <<svMsg, svResult, svOut, svCount>>

SvIdle ==
    /\ svMsg = <<>>
    /\ svResult = NoOutcome
    /\ svOut = <<>>
    /\ svCount = 0
    /\ svPc = "off"

(***************************************************************************)
(* train_classifier.py: multioutput_fscore, evaluate_pipeline              *)
(*                                                                         *)
(* Scores are exact fractions <<numerator, denominator>> in lowest terms.  *)
(* The geometric mean of k scores is kept as the k-th root of their        *)
(* product: [kind |-> "root", of |-> product, n |-> k].                    *)
(***************************************************************************)
MaxScoreRows == 2
MaxScoreCols == 2

Labels == {0, 1}

LabelMatrices ==
    UNION {[1..n -> [1..k -> Labels]] : n \in 1..MaxScoreRows, k \in 1..MaxScoreCols}

RECURSIVE Gcd(_, _)
Gcd(a, b) == IF b = 0 THEN a ELSE Gcd(b, a % b)

Frac(n, d) == LET g == Gcd(n, d) IN <<n \div g, d \div g>>

FracAdd(x, y) == Frac(x[1] * y[2] + y[1] * x[2], x[2] * y[2])

FracMul(x, y) == Frac(x[1] * y[1], x[2] * y[2])

One == <<1, 1>>

Zero == <<0, 1>>

Column(m, c) == [i \in 1..Len(m) |-> m[i][c]]

Count(S) == Cardinality(S)

\* sklearn.metrics.fbeta_score for one label: (1+b^2)tp / ((1+b^2)tp + b^2 fn + fp),
\* 0 when the label has no true positive.
LabelFbeta(y_true, y_pred, beta, label) ==
    LET rows == 1..Len(y_true)
        tp == Count({i \in rows : y_true[i] = label /\ y_pred[i] = label})
        fp == Count({i \in rows : y_true[i] # label /\ y_pred[i] = label})
        fn == Count({i \in rows : y_true[i] = label /\ y_pred[i] # label})
    IN  IF tp = 0 THEN Zero
        ELSE Frac((1 + beta * beta) * tp, (1 + beta * beta) * tp + beta * beta * fn + fp)

Support(y_true, label) == Count({i \in 1..Len(y_true) : y_true[i] = label})

\* line 172: fbeta_score(..., average='weighted'): the labels' scores weighted
\* by their support in y_true.
fbeta_score(y_true, y_pred, beta) ==
    FracAdd(FracMul(Frac(Support(y_true, 0), Len(y_true)), LabelFbeta(y_true, y_pred, beta, 0)),
            FracMul(Frac(Support(y_true, 1), Len(y_true)), LabelFbeta(y_true, y_pred, beta, 1)))

\* lines 170-173.
F1ScoreList(y_actual, y_estimators, beta) ==
    [column \in 1..Len(y_actual[1]) |->
        fbeta_score(Column(y_actual, column), Column(y_estimators, column), beta)]

\* line 176: f1score[f1score < 1].
BelowOne(score) == score[1] < score[2]

\* No score is dropped.
KeepEveryScore(scores) == scores

KeepBelowOne(scores) == SelectSeq(scores, BelowOne)

RECURSIVE Product(_)
Product(scores) ==
    IF scores = <<>> THEN One ELSE FracMul(Head(scores), Product(Tail(scores)))

NaN == [kind |-> "nan", of |-> Zero, n |-> 0]

\* line 179: scipy.stats.gmean; the mean of an empty array is nan.
gmean(scores) ==
    IF scores = <<>> THEN NaN
    ELSE [kind |-> "root", of |-> Product(scores), n |-> Len(scores)]

\* line 196: evaluate_pipeline calls multioutput_fscore with beta = 1.
ScoreBeta == 1

\* line 197: (y_pred == y_test).mean().mean().
OverallAccuracy(y_test, y_pred) ==
    LET n == Len(y_test)
        k == Len(y_test[1])
    IN  Frac(Count({<<i, c>> \in (1..n) \X (1..k) : y_test[i][c] = y_pred[i][c]}), n * k)

NoReport == [printed |-> FALSE, accuracy |-> Zero, f1 |-> NaN]

ScoreInit ==
    /\ yActual \in LabelMatrices
    /\ yPred \in [1..Len(yActual) -> [1..Len(yActual[1]) -> Labels]]
    /\ f1List = <<>>
    /\ f1Kept = <<>>
    /\ f1Result = NaN
    /\ report = NoReport
    /\ scorePc = "start"

\* lines 170-180, called at line 196.
MultioutputFscore ==
    /\ scorePc = "start"
    /\ f1List' = F1ScoreList(yActual, yPred, ScoreBeta)
    /\ f1Kept' = KeepBelowOne(f1List')
    /\ f1Result' = gmean(f1Kept')
    /\ scorePc' = "scored"
    /\ UNCHANGED <<yActual, yPred, report>>

\* lines 197-200: the two figures are formatted and printed; nan prints as "nan%".
EvaluatePrint ==
    /\ scorePc = "scored"
    /\ report' = [printed |-> TRUE,
                  accuracy |-> OverallAccuracy(yActual, yPred),
                  f1 |-> f1Result]
    /\ scorePc' = "evaluated"
    /\ UNCHANGED <<yActual, yPred, f1List, f1Kept, f1Result>>

ScoreIdle ==
    /\ yActual = <<>>
    /\ yPred = <<>>
    /\ f1List = <<>>
    /\ f1Kept = <<>>
    /\ f1Result = NaN
    /\ report = NoReport
    /\ scorePc = "off"

(***************************************************************************)
(* train_classifier.py: build_pipeline (GridSearchCV) and its fit in main  *)
(*                                                                         *)
(* GridSearchCV hands the (candidate, fold) tasks to n_jobs workers in     *)
(* task order, stores each score under its task's index, and after the     *)
(* last task picks the candidate of highest mean score, the first such in  *)
(* grid order.                                                             *)
(***************************************************************************)
NumFolds == 2
NumWorkers == 2
NumDatasets == 3

\* lines 138-139, learning rates in hundredths.
learning_rate == <<1, 2, 5>>

n_estimators == <<10, 20, 40>>

NumCandidates == Len(learning_rate) * Len(n_estimators)

\* ParameterGrid: the last parameter varies fastest.
Candidate(c) ==
    [learning_rate |-> learning_rate[((c - 1) \div Len(n_estimators)) + 1],
     n_estimators |-> n_estimators[((c - 1) % Len(n_estimators)) + 1]]

NumTasks == NumCandidates * NumFolds

TaskCandidate(t) == ((t - 1) \div NumFolds) + 1

TaskFold(t) == ((t - 1) % NumFolds) + 1

TaskOf(c, f) == (c - 1) * NumFolds + f

\* The micro-F1 (in quarters) the candidate reaches on the fold: a function
\* of the training data, the fold assignment and the candidate alone.
FoldScore(data, c, f) ==
    (Candidate(c).learning_rate * data + Candidate(c).n_estimators \div 10 + f * (data + c)) % 5

Pending == -1

\* Scores stored in the order the tasks finish.
ResultSlotByCompletion(t, results) ==
    1 + Cardinality({u \in 1..NumTasks : results[u] # Pending})

\* The slot of the results table a finished task's score is stored in.
ResultSlot(t, results) == t

MeanTimesFolds(results, c) ==
    LET Sum[f \in 0..NumFolds] ==
            IF f = 0 THEN 0 ELSE Sum[f - 1] + results[TaskOf(c, f)]
    IN  Sum[NumFolds]

\* best_index_: the first candidate, in grid order, of highest mean score.
best_index_(results) ==
    CHOOSE c \in 1..NumCandidates :
        /\ \A o \in 1..NumCandidates : MeanTimesFolds(results, o) <= MeanTimesFolds(results, c)
        /\ \A o \in 1..(c - 1) : MeanTimesFolds(results, o) < MeanTimesFolds(results, c)

GsInit ==
    /\ gsData \in 1..NumDatasets
    /\ gsNext = 1
    /\ gsInflight = {}
    /\ gsResults = [t \in 1..NumTasks |-> Pending]
    /\ gsBest = 0
    /\ gsOvertook = FALSE
    /\ gsPc = "fit"

\* line 244, n_jobs = -1: the next task goes to a free worker.
GsDispatch ==
    /\ gsPc = "fit"
    /\ gsNext <= NumTasks
    /\ Cardinality(gsInflight) < NumWorkers
    /\ gsInflight' = gsInflight \cup {gsNext}
    /\ gsNext' = gsNext + 1
    /\ UNCHANGED <<gsData, gsResults, gsBest, gsOvertook, gsPc>>

\* A worker finishes its task: fit on the fold's training part, score with
\* scoring = 'f1_micro' on the rest.  gsOvertook records that some task
\* finished while an earlier one was still running.
GsComplete ==
    /\ gsPc = "fit"
    /\ \E t \in gsInflight :
          /\ gsInflight' = gsInflight \ {t}
          /\ gsResults' = [gsResults EXCEPT ![ResultSlot(t, gsResults)] =
                              FoldScore(gsData, TaskCandidate(t), TaskFold(t))]
          /\ gsOvertook' = (gsOvertook \/ \E u \in gsInflight : u < t)
    /\ UNCHANGED <<gsData, gsNext, gsBest, gsPc>>

\* lines 244-248: fit returns after the last task; best_params_ is read.
GsSelect ==
    /\ gsPc = "fit"
    /\ gsNext > NumTasks
    /\ gsInflight = {}
    /\ gsBest' = best_index_(gsResults)
    /\ gsPc' = "selected"
    /\ UNCHANGED <<gsData, gsNext, gsInflight, gsResults, gsOvertook>>

GsIdle ==
    /\ gsData = 0
    /\ gsNext = 0
    /\ gsInflight = {}
    /\ gsResults = <<>>
    /\ gsBest = 0
    /\ gsOvertook = FALSE
    /\ gsPc = "off"

(***************************************************************************)
(* Specifications                                                          *)
(***************************************************************************)
Init == EtlInit /\ CleanIdle /\ TokIdle /\ SvIdle /\ ScoreIdle /\ GsIdle

Next ==
    \/ EtlLoad /\ UNCHANGED <<cleanVars, tokVars, svVars, scoreVars, gsVars>>
    \/ EtlClean /\ UNCHANGED <<cleanVars, tokVars, svVars, scoreVars, gsVars>>
    \/ EtlSave /\ UNCHANGED <<cleanVars, tokVars, svVars, scoreVars, gsVars>>
    \/ TrainLoad /\ UNCHANGED <<cleanVars, tokVars, svVars, scoreVars, gsVars>>
    \/ TrainDone /\ UNCHANGED <<cleanVars, tokVars, svVars, scoreVars, gsVars>>

\* The two programs, run one after the other.
Spec == Init /\ [][Next]_vars

CleanSpecInit == CleanInit /\ EtlIdle /\ TokIdle /\ SvIdle /\ ScoreIdle /\ GsIdle

CleanNext == CleanData /\ UNCHANGED <<etlVars, tokVars, svVars, scoreVars, gsVars>>

\* clean_data on every table.
SpecClean == CleanSpecInit /\ [][CleanNext]_vars

TokSpecInit == TokInit /\ EtlIdle /\ CleanIdle /\ SvIdle /\ ScoreIdle /\ GsIdle

TokNext == Tokenize /\ UNCHANGED <<etlVars, cleanVars, svVars, scoreVars, gsVars>>

\* tokenize on every text.
SpecTok == TokSpecInit /\ [][TokNext]_vars

SvSpecInit == SvInit /\ EtlIdle /\ CleanIdle /\ TokIdle /\ ScoreIdle /\ GsIdle

SvNext ==
    \/ SvFetch /\ UNCHANGED <<etlVars, cleanVars, tokVars, scoreVars, gsVars>>
    \/ StartingVerb /\ UNCHANGED <<etlVars, cleanVars, tokVars, scoreVars, gsVars>>
    \/ SvCollect /\ UNCHANGED <<etlVars, cleanVars, tokVars, scoreVars, gsVars>>
    \/ SvFinish /\ UNCHANGED <<etlVars, cleanVars, tokVars, scoreVars, gsVars>>

\* StartingVerbExtractor.transform on every list of messages.
SpecVerb == SvSpecInit /\ [][SvNext]_vars

ScoreSpecInit == ScoreInit /\ EtlIdle /\ CleanIdle /\ TokIdle /\ SvIdle /\ GsIdle

ScoreNext ==
    \/ MultioutputFscore /\ UNCHANGED <<etlVars, cleanVars, tokVars, svVars, gsVars>>
    \/ EvaluatePrint /\ UNCHANGED <<etlVars, cleanVars, tokVars, svVars, gsVars>>

\* evaluate_pipeline on every pair of label matrices.
SpecScore == ScoreSpecInit /\ [][ScoreNext]_vars

GsSpecInit == GsInit /\ EtlIdle /\ CleanIdle /\ TokIdle /\ SvIdle /\ ScoreIdle

GsNext ==
    \/ GsDispatch /\ UNCHANGED <<etlVars, cleanVars, tokVars, svVars, scoreVars>>
    \/ GsComplete /\ UNCHANGED <<etlVars, cleanVars, tokVars, svVars, scoreVars>>
    \/ GsSelect /\ UNCHANGED <<etlVars, cleanVars, tokVars, svVars, scoreVars>>

\* The grid search's fit.
SpecGrid == GsSpecInit /\ [][GsNext]_vars

(***************************************************************************)
(* Properties                                                              *)
(***************************************************************************)

\* The value a cell states: the text after "<name>-", stripped.
StatedValue(cell) == StrStrip(SubSeq(cell, 3, Len(cell)))

AcceptedValues == {<<"0">>, <<"1">>, <<"2">>}

\* C1: every category value parsed by clean_data is stored as 0 or 1 (2
\* becoming 1, 0 and 1 unchanged) and a table holding any other value, such
\* as 3 or 12, is rejected with an error.
C1_OtherValuesRejected ==
    (cleanPc = "done" /\ cleanOut.status = "ok") =>
        /\ \A i \in 1..Len(cleanIn), c \in 1..Len(CategoryNames) :
              StatedValue(cleanIn[i].cats[c]) \in AcceptedValues
        /\ \A i \in 1..Len(cleanOut.rows) :
              \A c \in 1..Len(cleanOut.rows[i].vals) : cleanOut.rows[i].vals[c] \in {0, 1}

AllColumnsPerfect ==
    \A c \in 1..Len(yActual[1]) : Column(yActual, c) = Column(yPred, c)

\* C2: when every label column is perfect, multioutput_fscore and
\* evaluate_pipeline report a degenerate result: what is returned and what
\* is printed is neither a number nor NaN.
C2_DegenerateResultReported ==
    /\ (scorePc \in {"scored", "evaluated"} /\ AllColumnsPerfect) =>
          f1Result.kind \notin {"nan", "root"}
    /\ (scorePc = "evaluated" /\ AllColumnsPerfect) =>
          report.f1.kind \notin {"nan", "root"}

\* C3: starting_verb never raises, and a message of no sentences gives false.
C3_StartingVerbNeverRaises ==
    /\ svPc # "raised"
    /\ svPc = "ret" => ~svResult.raised
    /\ (svPc = "ret" /\ svMsg = <<>>) => ~svResult.value

Tokenless(m, i) == m[i].tags = <<>>

VerbFirst(m, i) == ~Tokenless(m, i) /\ m[i].tags[1] \in {"VB", "VBP"}

LiteralFirstToken(sentence) == WordTokenize(sentence.text)[1]

\* C4 as stated: a message whose first sentence begins neither with a
\* VB/VBP tag nor with the token "RT" has a false feature, whatever its later
\* sentences begin with.
C4_FirstSentenceDecides ==
    (/\ svPc = "ret"
     /\ svMsg # <<>>
     /\ ~Tokenless(svMsg, 1)
     /\ ~VerbFirst(svMsg, 1)
     /\ LiteralFirstToken(svMsg[1]) # <<"R", "T">>) => ~svResult.value

\* The loop stops at sentence i when it begins with a verb tag or has no token.
ReachedBy(m, i) == \A j \in 1..(i - 1) : ~VerbFirst(m, j) /\ ~Tokenless(m, j)

\* C4 as amended: the sentences are taken in order; the feature is true
\* exactly when a sentence beginning with a VB/VBP tag is reached, IndexError
\* is raised exactly when a sentence without tokens is reached first, and the
\* feature is false otherwise; transform has one boolean per message taken,
\* and none for the message that raised.
C4_AnySentenceDecides ==
    /\ svPc = "ret" =>
          /\ svResult.value <=>
                \E i \in 1..Len(svMsg) : VerbFirst(svMsg, i) /\ ReachedBy(svMsg, i)
          /\ svResult.raised <=>
                \E i \in 1..Len(svMsg) : Tokenless(svMsg, i) /\ ReachedBy(svMsg, i)
    /\ svPc \in {"fetch", "done"} => Len(svOut) = svCount
    /\ svPc = "raised" => Len(svOut) = svCount - 1

\* C4, reached: the first sentence begins with no verb, the second does, and
\* starting_verb has returned true.
C4_LaterSentenceDecided ==
    /\ svPc = "ret"
    /\ Len(svMsg) >= 2
    /\ ~Tokenless(svMsg, 1)
    /\ ~VerbFirst(svMsg, 1)
    /\ VerbFirst(svMsg, 2)
    /\ svResult.value

\* C5 as stated: the cleaned table has at most as many rows as the input and
\* no two identical rows.
C5_NoIdenticalRows ==
    (cleanPc = "done" /\ cleanOut.status = "ok") =>
        /\ Len(cleanOut.rows) <= Len(cleanIn)
        /\ \A i, j \in 1..Len(cleanOut.rows) :
              cleanOut.rows[i] = cleanOut.rows[j] => i = j

WithoutChildAlone(row) ==
    [id |-> row.id, message |-> row.message, vals |-> <<row.vals[1]>>]

\* C5 as amended: the cleaned table has at most as many rows as the input,
\* one row for each distinct input row, child_alone included; two of its
\* rows are identical only when they come from input rows that differ in
\* child_alone alone.
C5_DistinctBeforeChildAloneDrop ==
    (cleanPc = "done" /\ cleanOut.status = "ok") =>
        LET full == Range(ParsedRows(cleanIn))
        IN  /\ Len(cleanOut.rows) <= Len(cleanIn)
            /\ Len(cleanOut.rows) = Cardinality(full)
            /\ \A r \in Range(cleanOut.rows) :
                  Cardinality({i \in 1..Len(cleanOut.rows) : cleanOut.rows[i] = r})
                     = Cardinality({p \in full : WithoutChildAlone(p) = r})

\* C5, reached: two input rows equal in every column, one row returned.
C5_DuplicateRemoved ==
    /\ cleanPc = "done"
    /\ cleanOut.status = "ok"
    /\ Len(cleanIn) = 2
    /\ ParsedRow(cleanIn[1]) = ParsedRow(cleanIn[2])
    /\ Len(cleanOut.rows) = 1

ImperfectColumns == {c \in 1..Len(yActual[1]) : Column(yActual, c) # Column(yPred, c)}

\* The scores of the imperfect columns among the first c, in column order.
RECURSIVE ImperfectScores(_)
ImperfectScores(c) ==
    IF c = 0 THEN <<>>
    ELSE IF c \in ImperfectColumns
         THEN Append(ImperfectScores(c - 1), f1List[c])
         ELSE ImperfectScores(c - 1)

\* C6: a column scores 1.0 exactly when its predictions equal the true
\* values on every row; the scores aggregated are those of the other
\* columns, all of them, and the result is their geometric mean.
C6_ImperfectColumnsAggregated ==
    scorePc \in {"scored", "evaluated"} =>
        /\ \A c \in 1..Len(f1List) : (f1List[c] = One) <=> (c \notin ImperfectColumns)
        /\ f1Kept = ImperfectScores(Len(f1List))
        /\ f1Result = gmean(ImperfectScores(Len(f1List)))

\* C6, reached: a perfect column left out and an imperfect one aggregated,
\* with a score strictly between 0 and 1.
C6_PerfectColumnExcluded ==
    /\ scorePc = "scored"
    /\ ImperfectColumns # {}
    /\ ImperfectColumns # 1..Len(yActual[1])
    /\ Len(f1Kept) < Len(f1List)
    /\ f1Result.kind = "root"
    /\ f1Result.of \notin {Zero, One}

\* re.sub: each match of the pattern replaced where it stands.
RECURSIVE SubstituteMatches(_)
SubstituteMatches(s) ==
    IF s = <<>> THEN <<>>
    ELSE IF Head(s) = Scheme /\ UrlRun(Tail(s)) >= 1
         THEN <<url_placeholder>> \o SubstituteMatches(SubSeq(s, 2 + UrlRun(Tail(s)), Len(s)))
         ELSE <<Head(s)>> \o SubstituteMatches(Tail(s))

\* C7: tokenize replaces every match of the URL pattern in full before the
\* words are split: its tokens are those of the text with each match
\* replaced by the placeholder, so no piece of a URL is left.
C7_EveryUrlReplacedInFull ==
    tokPc = "done" => tokOut = CleanTokens(WordTokenize(SubstituteMatches(tokText)))

\* C8: a message whose first sentence's first literal token is "RT" has a
\* true feature, whatever tag the token gets.
C8_RetweetMarkerIsTrue ==
    (/\ svPc = "ret"
     /\ svMsg # <<>>
     /\ ~Tokenless(svMsg, 1)
     /\ LiteralFirstToken(svMsg[1]) = <<"R", "T">>) =>
        (~svResult.raised /\ svResult.value)

\* The candidate a search that runs the tasks one after the other picks.
SequentialMean(data, c) ==
    LET Sum[f \in 0..NumFolds] ==
            IF f = 0 THEN 0 ELSE Sum[f - 1] + FoldScore(data, c, f)
    IN  Sum[NumFolds]

SequentialBest(data) ==
    CHOOSE c \in 1..NumCandidates :
        /\ \A o \in 1..NumCandidates : SequentialMean(data, o) <= SequentialMean(data, c)
        /\ \A o \in 1..(c - 1) : SequentialMean(data, o) < SequentialMean(data, c)

C10_TableHoldsLatestRun ==
    /\ \A f \in Files :
          lastrun[f].frame.status = "ok" =>
              db[f]["DisasterResponse_table"] = lastrun[f].frame
    /\ (etlPc = "train_loaded" /\ lastrun[etlFile].frame.status = "ok") =>
          LET rows == lastrun[etlFile].frame.rows
          IN  /\ trainDf.status = "ok"
              /\ trainDf.X = [i \in 1..Len(rows) |-> rows[i].message]
              /\ trainDf.y = [i \in 1..Len(rows) |-> rows[i].vals]
              /\ trainDf.category_names = lastrun[etlFile].frame.columns

\* C10, reached: the training stage loads from messages.db a table that a
\* later ETL run has replaced.
C10_ReplacedTableLoaded ==
    /\ etlPc = "train_loaded"
    /\ etlFile = "messages.db"
    /\ lastrun[etlFile].replaced
    /\ trainDf.status = "ok"
    /\ Len(trainDf.X) >= 1

====
